---------------------------- MODULE Spec2Model ----------------------------
(***************************************************************************)
(* A model of rpc.hpp (packed calls, the njson serial adapter, the server  *)
(* dispatcher with its result cache, the client call surface, and host     *)
(* threads that call the dispatcher at the same time).                     *)
(*                                                                         *)
(* JSON values are tagged records [t, v]; a msgpack byte buffer is a       *)
(* sequence of wire items (a header or a scalar each), so that encoding,   *)
(* decoding and canonicalisation are computed, not assumed.                *)
(***************************************************************************)
EXTENDS Integers, Sequences, FiniteSets, TLC

VARIABLES
    m_dispatch_table,   \* per server: func_name -> the bound handler wrapper
    m_cache_map,        \* per server: func_name -> the cache bucket it points to
    cache,              \* the function-local statics of get_func_cache_impl
    owner,              \* history: per cache entry, the server that inserted it
    seen,               \* history: per (server, func_name, request) dispatched to
                        \* a cached binding: callback runs and replies given
    fresh,              \* history: per server, clear_all_cache was its last operation
    last,               \* the last operation and what it produced
    bound,              \* history: per server and name, the handler of the latest bind
    thread,             \* per host thread, the dispatch it is in and how far it is
    nbinds,             \* number of bind / bind_cached calls so far
    nops                \* number of dispatch / clear_all_cache / call_func calls,
                        \* or of member-function calls on a pack, so far

vars == <<m_dispatch_table, m_cache_map, cache, owner, seen, fresh, last, bound, thread, nbinds, nops>>

-----------------------------------------------------------------------------
(* Bounds of the model *)

\* Largest integer a request argument carries.
MaxInt == 1
\* Longest args sequence of a request built field by field.
MaxArgs == 2
\* Number of bind / bind_cached calls explored.
MaxBinds == 2
\* Number of dispatch / clear_all_cache calls explored in a row.
MaxOps == 3
\* longest std::vector among the arguments of a pack
MaxLen == 1

-----------------------------------------------------------------------------
(* exception_type *)

none == 0
func_not_found == 1
remote_exec == 2
serialization == 3
deserialization == 4
signature_mismatch == 5
client_send == 6
client_receive == 7
server_send == 8
server_receive == 9

\* rpc_exception: a message and one exception_type.
rpc_exception(mesg, type) == [mesg |-> mesg, type |-> type]

-----------------------------------------------------------------------------
(* nlohmann::json values *)

JNull == [t |-> "null"]
JBool(b) == [t |-> "bool", v |-> b]
JInt(n) == [t |-> "int", v |-> n]
JFloat(n) == [t |-> "float", v |-> n]
JStr(s) == [t |-> "str", v |-> s]
JArr(s) == [t |-> "arr", v |-> s]
JObj(f) == [t |-> "obj", v |-> f]

\* The object with no members (function with empty domain).
NoFields == [k \in {} |-> JNull]

\* basic_json::type_name()
type_name(j) ==
    CASE j.t = "null" -> "null"
      [] j.t = "bool" -> "boolean"
      [] j.t = "str" -> "string"
      [] j.t = "arr" -> "array"
      [] j.t = "obj" -> "object"
      [] OTHER -> "number"

\* basic_json::size(): null is 0, containers their length, scalars 1.
json_size(j) ==
    CASE j.t = "null" -> 0
      [] j.t = "arr" -> Len(j.v)
      [] j.t = "obj" -> Cardinality(DOMAIN j.v)
      [] OTHER -> 1

\* basic_json::empty(): null is empty, containers when they have no
\* element, every scalar (a string of any length included) is not.
json_empty(j) == json_size(j) = 0

\* basic_json::contains(key)
contains(j, key) == j.t = "obj" /\ key \in DOMAIN j.v

\* operator== of a json value with the integer literal 0 (a JFloat(n) stands
\* for n + 1/2 and is never 0)
json_is_zero(j) == j.t = "int" /\ j.v = 0

\* The members of an object in std::map order (lexicographic by key).
KeyOrder == <<"args", "err_mesg", "except_type", "func_name", "result">>

Keys == {KeyOrder[i] : i \in 1..Len(KeyOrder)}

\* obj with member key set to val (operator[] on a mutable object)
json_set(j, key, val) ==
    JObj([k \in (DOMAIN j.v) \cup {key} |-> IF k = key THEN val ELSE j.v[k]])

-----------------------------------------------------------------------------
(* msgpack: a buffer is a sequence of wire items *)

WNil == [m |-> "nil"]
WBool(b) == [m |-> "bool", x |-> b]
WInt(n) == [m |-> "int", x |-> n]
WFloat(n) == [m |-> "float", x |-> n]
WStr(s) == [m |-> "str", x |-> s]
WArr(n) == [m |-> "array", x |-> n]
WMap(n) == [m |-> "map", x |-> n]

RECURSIVE to_msgpack(_)
RECURSIVE pack_elems(_, _)
RECURSIVE pack_members(_, _)

\* the elements of an array from index i on, one after the other
pack_elems(s, i) ==
    IF i > Len(s) THEN <<>> ELSE to_msgpack(s[i]) \o pack_elems(s, i + 1)

\* the members of an object in key order, from position i of KeyOrder on
pack_members(f, i) ==
    IF i > Len(KeyOrder) THEN <<>>
    ELSE IF KeyOrder[i] \in DOMAIN f
         THEN <<WStr(KeyOrder[i])>> \o to_msgpack(f[KeyOrder[i]])
                  \o pack_members(f, i + 1)
         ELSE pack_members(f, i + 1)

\* json::to_msgpack
to_msgpack(j) ==
    CASE j.t = "null" -> <<WNil>>
      [] j.t = "bool" -> <<WBool(j.v)>>
      [] j.t = "int" -> <<WInt(j.v)>>
      [] j.t = "float" -> <<WFloat(j.v)>>
      [] j.t = "str" -> <<WStr(j.v)>>
      [] j.t = "arr" -> <<WArr(Len(j.v))>> \o pack_elems(j.v, 1)
      [] j.t = "obj" -> <<WMap(Cardinality(DOMAIN j.v))>> \o pack_members(j.v, 1)

ParseError == [ok |-> FALSE]

Parsed(v, rest) == [ok |-> TRUE, val |-> v, rest |-> rest]

\* r when it failed, K of the value and the rest of the buffer otherwise
AndParse(r, K(_, _)) == IF r.ok THEN K(r.val, r.rest) ELSE ParseError

RECURSIVE parse_value(_)
RECURSIVE parse_elems(_, _, _)
RECURSIVE parse_members(_, _, _)

\* n more array elements from buffer b, acc the elements read so far
parse_elems(b, n, acc) ==
    IF n = 0 THEN Parsed(JArr(acc), b)
    ELSE AndParse(parse_value(b),
                  LAMBDA v, rest : parse_elems(rest, n - 1, Append(acc, v)))

\* n more object members from buffer b; a key must be a string, a repeated
\* key overwrites the earlier member
parse_members(b, n, acc) ==
    IF n = 0 THEN Parsed(acc, b)
    ELSE IF b = <<>> \/ Head(b).m # "str" THEN ParseError
    ELSE AndParse(parse_value(Tail(b)),
                  LAMBDA v, rest : parse_members(rest, n - 1, json_set(acc, Head(b).x, v)))

\* one value from the front of buffer b
parse_value(b) ==
    IF b = <<>> THEN ParseError
    ELSE CASE Head(b).m = "nil" -> Parsed(JNull, Tail(b))
           [] Head(b).m = "bool" -> Parsed(JBool(Head(b).x), Tail(b))
           [] Head(b).m = "int" -> Parsed(JInt(Head(b).x), Tail(b))
           [] Head(b).m = "float" -> Parsed(JFloat(Head(b).x), Tail(b))
           [] Head(b).m = "str" -> Parsed(JStr(Head(b).x), Tail(b))
           [] Head(b).m = "array" -> parse_elems(Tail(b), Head(b).x, <<>>)
           [] Head(b).m = "map" -> parse_members(Tail(b), Head(b).x, JObj(NoFields))

\* json::from_msgpack (strict: the whole buffer must be one value)
from_msgpack(b) ==
    AndParse(parse_value(b),
             LAMBDA v, rest : IF rest = <<>> THEN Parsed(v, rest) ELSE ParseError)

-----------------------------------------------------------------------------
(* njson_adapter: bytes <-> serial object *)

Absent == [has |-> FALSE]
Present(x) == [has |-> TRUE, val |-> x]

\* njson_adapter::to_bytes
to_bytes(serial_obj) == to_msgpack(serial_obj)

\* The structural checks of from_bytes on the decoded value obj.
check_object(obj) ==
    IF obj.t # "obj" THEN Absent
    ELSE IF contains(obj, "except_type")
    THEN IF ~json_is_zero(obj.v["except_type"]) /\ ~contains(obj, "err_mesg")
         THEN Absent
         ELSE Present(obj)
    ELSE IF \/ ~contains(obj, "func_name")
            \/ obj.v["func_name"].t # "str"
            \/ json_empty(obj.v["func_name"])
    THEN Absent
    ELSE IF ~contains(obj, "args") \/ obj.v["args"].t # "arr"
    THEN Absent
    ELSE Present(obj)

\* from_bytes once from_msgpack has given r (a parse_error is caught)
from_parsed(r) == IF ~r.ok THEN Absent ELSE check_object(r.val)

\* njson_adapter::from_bytes
from_bytes(bytes) == from_parsed(from_msgpack(bytes))

\* njson_adapter::empty_object
empty_object == JObj(NoFields)


-----------------------------------------------------------------------------
(* C++ types and values *)

\* A parameter or return type: its kind k after removing const and
\* reference, and its qualifier q (by value, T&, const T&).
TInt == [k |-> "int", q |-> "val"]
TIntRef == [k |-> "int", q |-> "ref"]
TIntCRef == [k |-> "int", q |-> "cref"]
TBool == [k |-> "bool", q |-> "val"]
TString == [k |-> "string", q |-> "val"]
TStringCRef == [k |-> "string", q |-> "cref"]
TStringRef == [k |-> "string", q |-> "ref"]
TStringLit == [k |-> "string", q |-> "lit"]
TVoid == [k |-> "void", q |-> "val"]
\* std::vector<T> and std::tuple<Ts...>
TVec(T) == [k |-> "vec", q |-> "val", of |-> T]
TTuple(Ts) == [k |-> "tuple", q |-> "val", of |-> Ts]

CInt(n) == [c |-> "int", x |-> n]
CBool(b) == [c |-> "bool", b |-> b]
CStr(s) == [c |-> "string", s |-> s]
CVec(e) == [c |-> "vec", e |-> e]
CTuple(e) == [c |-> "tuple", e |-> e]

\* What is thrown: an rpc_exception, another std::exception (what() only),
\* or an object that is no std::exception.
ThrowRpc(mesg, type) == [st |-> "throw", ex |-> [cls |-> "rpc", mesg |-> mesg, type |-> type]]
ThrowStd(mesg) == [st |-> "throw", ex |-> [cls |-> "std", mesg |-> mesg]]
ThrowOther == [st |-> "throw", ex |-> [cls |-> "other"]]
\* The process is gone (a failed assertion, a wild read).
Abort == [st |-> "abort"]
Ok(x) == [st |-> "ok", val |-> x]

\* The builds' outcomes of reading a missing member through the const
\* operator[] of an object (undefined behaviour): the library's assertion
\* ends the process, or the read goes through and yields some value.
UBOutcomes == {"abort", "null"}

\* const basic_json::operator[](key)
const_at(j, key, ub) ==
    IF contains(j, key) THEN Ok(j.v[key])
    ELSE IF ub = "abort" THEN Abort ELSE Ok(JNull)

\* json type_error 302 of a failed conversion
type_error(want, j) == ThrowStd("type must be " \o want \o ", but is " \o type_name(j))

\* basic_json::get<no_ref_t>() for the arithmetic types and std::string.
\* JFloat(n) stands for the number n + 1/2, which a static_cast to an
\* integer truncates to n.
json_get(k, j) ==
    CASE k = "int" ->
            IF j.t \in {"int", "float"} THEN Ok(CInt(j.v))
            ELSE IF j.t = "bool" THEN Ok(CInt(IF j.v THEN 1 ELSE 0))
            ELSE type_error("number", j)
      [] k = "bool" ->
            IF j.t = "bool" THEN Ok(CBool(j.v)) ELSE type_error("boolean", j)
      [] k = "string" ->
            IF j.t = "str" THEN Ok(CStr(j.v)) ELSE type_error("string", j)

\* conversion of a json value to std::string (implicit) and to exception_type
get_string(j) == IF j.t = "str" THEN Ok(j.v) ELSE type_error("string", j)

get_enum(j) ==
    IF j.t \in {"int", "float"} THEN Ok(j.v)
    ELSE IF j.t = "bool" THEN Ok(IF j.v THEN 1 ELSE 0)
    ELSE type_error("number", j)

\* typeid(T).name(): implementation-defined; references are ignored by typeid
typeid_name(T) == T.k

-----------------------------------------------------------------------------
(* njson_adapter: argument encoding *)

\* njson_adapter::validate_arg<T>. T is the declared parameter type: for a
\* reference type none of the is_same / is_integral / is_container tests
\* holds and the last branch decides.
validate_arg(T, arg) ==
    IF T.q # "val" THEN arg.t # "null"
    ELSE CASE T.k = "bool" -> arg.t = "bool"
           [] T.k = "int" -> arg.t = "int"
           [] T.k = "string" -> arg.t = "str"
           [] T.k = "vec" -> arg.t = "arr"
           [] OTHER -> arg.t # "null"

\* njson_adapter::mismatch_string
mismatch_string(expect_type, arg) ==
    "njson expected type: " \o expect_type \o ", got type: " \o type_name(arg)

RECURSIVE push_arg(_)

\* njson_adapter::push_arg: a container pushes each element with push_args,
\* a tuple writes each element at its index
push_arg(val) ==
    CASE val.c = "int" -> JInt(val.x)
      [] val.c = "bool" -> JBool(val.b)
      [] val.c = "string" -> JStr(val.s)
      [] val.c \in {"vec", "tuple"} -> JArr([i \in 1..Len(val.e) |-> push_arg(val.e[i])])

\* njson_adapter::push_args over a whole tuple (for_each_tuple)
push_all(args) == [i \in 1..Len(args) |-> push_arg(args[i])]

\* r when it is a throw or an abort, K of its value otherwise
Then(r, K(_)) == IF r.st = "ok" THEN K(r.val) ELSE r

\* a parsed argument together with the new value of arg_counter
with_index(r, index) ==
    IF r.st = "ok" THEN Ok([arg |-> r.val, index |-> index]) ELSE r

\* what a range-for over a json value visits: the elements of an array,
\* nothing for null, the value itself for a number, a boolean or a string
\* (no object occurs among the arguments here)
items(arg) ==
    CASE arg.t = "arr" -> arg.v
      [] arg.t = "null" -> <<>>
      [] OTHER -> <<arg>>

\* for_each_tuple hands the lambda each element as auto& val, and
\* decltype(val) is a reference type
as_refs(Ts) == [i \in 1..Len(Ts) |-> [Ts[i] EXCEPT !.q = "ref"]]

RECURSIVE parse_arg(_, _), parse_args(_, _, _), parse_tuple(_, _, _, _, _),
          parse_container(_, _, _, _, _)

\* njson_adapter::parse_arg<T>
parse_arg(T, arg) ==
    IF ~validate_arg(T, arg)
    THEN ThrowRpc(mismatch_string(typeid_name(T), arg), signature_mismatch)
    ELSE CASE T.k = "vec" -> parse_container(T.of, items(arg), 1, 0, <<>>)
           [] T.k = "tuple" ->
                Then(parse_tuple(as_refs(T.of), 1, arg, 0, <<>>), LAMBDA e : Ok(CTuple(e)))
           [] OTHER -> json_get(T.k, arg)

\* njson_adapter::parse_args<T>: index is the 0-based arg_counter
parse_args(T, arg_arr, index) ==
    IF index >= json_size(arg_arr)
    THEN ThrowRpc("Argument count mismatch", signature_mismatch)
    ELSE IF arg_arr.t = "arr"
    THEN with_index(parse_arg(T, arg_arr.v[index + 1]), index + 1)
    ELSE with_index(parse_arg(T, arg_arr), index)

\* The container branch of parse_arg: for (const auto& val : arg)
\* container.push_back(parse_args<value_t>(val, arg_counter)), with one
\* arg_counter for all the elements, from element i of vals on
parse_container(V, vals, i, index, acc) ==
    IF i > Len(vals) THEN Ok(CVec(acc))
    ELSE Then(parse_args(V, vals[i], index),
              LAMBDA a : parse_container(V, vals, i + 1, a.index, Append(acc, a.arg)))

\* args_t args{ parse_args<Args>(args_val, arg_counter)... }, and the tuple
\* branch of parse_arg: one element per type of Args, left to right, from
\* type i on
parse_tuple(Args, i, args_val, index, acc) ==
    IF i > Len(Args) THEN Ok(acc)
    ELSE Then(parse_args(Args[i], args_val, index),
              LAMBDA a : parse_tuple(Args, i + 1, args_val, a.index, Append(acc, a.arg)))

-----------------------------------------------------------------------------
(* detail::packed_func *)

\* packed_func(func_name, result, args); for R = void there is no result slot
packed_func(R, func_name, result, args) ==
    [R |-> R, m_func_name |-> func_name, m_args |-> args, m_result |-> result,
     m_except_type |-> none, m_err_mesg |-> ""]

\* packed_func_base::set_exception
pack_set_exception(pack, mesg, type) ==
    [pack EXCEPT !.m_except_type = type, !.m_err_mesg = mesg]

\* packed_func::set_result
set_result(pack, value) == [pack EXCEPT !.m_result = Present(value)]

\* packed_func::clear_result
clear_result(pack) == [pack EXCEPT !.m_result = Absent]

\* A faulty operator bool: the error kind is not looked at.
pack_ok_result_only(pack) == pack.R.k = "void" \/ pack.m_result.has

\* packed_func::operator bool
pack_ok(pack) ==
    IF pack.R.k = "void" THEN pack.m_except_type = none
    ELSE pack.m_result.has /\ pack.m_except_type = none

\* A faulty throw_ex: every kind is thrown as a plain rpc_exception.
throw_ex_plain(pack) == ThrowRpc(pack.m_err_mesg, none)

\* packed_func_base::throw_ex: the exception class of m_except_type; the
\* default case throws a plain rpc_exception of type none
throw_ex(pack) ==
    IF pack.m_except_type \in func_not_found..server_receive
    THEN ThrowRpc(pack.m_err_mesg, pack.m_except_type)
    ELSE ThrowRpc(pack.m_err_mesg, none)

\* packed_func::get_result
get_result(pack) ==
    IF ~pack_ok(pack) THEN throw_ex(pack)
    ELSE IF pack.R.k = "void" THEN Ok(Absent)
    ELSE Ok(pack.m_result.val)

-----------------------------------------------------------------------------
(* njson_adapter: packed_func <-> serial object *)

\* the members every serialized pack has
pack_base(pack) ==
    ("func_name" :> JStr(pack.m_func_name)) @@ ("args" :> JArr(push_all(pack.m_args)))

\* A faulty serialize_pack: a result that is there is written first.
serialize_pack_result_first(pack) ==
    IF pack.R.k # "void" /\ pack.m_result.has
    THEN JObj(pack_base(pack) @@ ("result" :> push_arg(pack.m_result.val)))
    ELSE JObj(pack_base(pack) @@ ("except_type" :> JInt(pack.m_except_type))
                              @@ ("err_mesg" :> JStr(pack.m_err_mesg)))

\* njson_adapter::serialize_pack
serialize_pack(pack) ==
    IF ~pack_ok(pack)
    THEN JObj(pack_base(pack) @@ ("except_type" :> JInt(pack.m_except_type))
                              @@ ("err_mesg" :> JStr(pack.m_err_mesg)))
    ELSE IF pack.R.k # "void"
    THEN JObj(pack_base(pack) @@ ("result" :> push_arg(pack.m_result.val)))
    ELSE JObj(pack_base(pack))

\* The tail of deserialize_pack: the pack without a result, and the
\* exception fields copied when except_type is there.
deserialize_except(R, fname, args, serial_obj, ub) ==
    IF ~contains(serial_obj, "except_type") THEN Ok(packed_func(R, fname, Absent, args))
    ELSE Then(const_at(serial_obj, "err_mesg", ub), LAMBDA em :
         Then(get_string(em), LAMBDA mesg :
         Then(get_enum(serial_obj.v["except_type"]), LAMBDA type :
              Ok(pack_set_exception(packed_func(R, fname, Absent, args), mesg, type)))))

\* deserialize_pack once the argument tuple args and the name fname are read
deserialize_result(R, fname, args, serial_obj, ub) ==
    IF /\ R.k # "void"
       /\ contains(serial_obj, "result")
       /\ serial_obj.v["result"].t # "null"
    THEN Then(parse_arg(R, serial_obj.v["result"]),
              LAMBDA res : Ok(packed_func(R, fname, Present(res), args)))
    ELSE deserialize_except(R, fname, args, serial_obj, ub)

\* njson_adapter::deserialize_pack<R, Args...>
deserialize_pack(R, Args, serial_obj, ub) ==
    Then(const_at(serial_obj, "args", ub), LAMBDA args_val :
    Then(parse_tuple(Args, 1, args_val, 0, <<>>), LAMBDA args :
    Then(const_at(serial_obj, "func_name", ub), LAMBDA fj :
    Then(get_string(fj), LAMBDA fname :
         deserialize_result(R, fname, args, serial_obj, ub)))))

\* njson_adapter::get_func_name
get_func_name(serial_obj, ub) ==
    Then(const_at(serial_obj, "func_name", ub), LAMBDA fj : get_string(fj))

\* njson_adapter::set_exception
set_exception(serial_obj, ex) ==
    json_set(json_set(serial_obj, "except_type", JInt(ex.type)), "err_mesg", JStr(ex.mesg))

\* njson_adapter::extract_exception (at() throws out_of_range on a missing key)
extract_exception(serial_obj) ==
    IF ~contains(serial_obj, "err_mesg") \/ ~contains(serial_obj, "except_type")
    THEN ThrowStd("key not found")
    ELSE Then(get_string(serial_obj.v["err_mesg"]), LAMBDA mesg :
         Then(get_enum(serial_obj.v["except_type"]), LAMBDA type :
              Ok(rpc_exception(mesg, type))))

-----------------------------------------------------------------------------
(* The callbacks the host binds *)

SimpleSum == [id |-> "SimpleSum", R |-> TInt, Args |-> <<TInt, TInt>>]
AddOneRef == [id |-> "AddOneRef", R |-> TInt, Args |-> <<TIntRef>>]
ThrowIfZero == [id |-> "ThrowIfZero", R |-> TInt, Args |-> <<TInt>>]
IncUnit == [id |-> "IncUnit", R |-> TVoid, Args |-> <<TIntRef>>]
ThrowObject == [id |-> "ThrowObject", R |-> TVoid, Args |-> <<>>]
Shout == [id |-> "Shout", R |-> TVoid, Args |-> <<TStringRef>>]

Callbacks == {SimpleSum, AddOneRef, ThrowIfZero, IncUnit, ThrowObject}

Returned(result, args) == [st |-> "ret", result |-> result, args |-> args]
Raised(ex, args) == [st |-> "throw", ex |-> ex, args |-> args]

\* std::apply(func, args): what the callback does with the argument tuple
\* (args is passed by reference: reference parameters are written in place).
\*   int  SimpleSum(int a, int b)  { return a + b; }
\*   int  AddOneRef(int& n)        { n += 1; return n; }
\*   int  ThrowIfZero(int n)       { if (n == 0) throw std::domain_error("zero"); return n; }
\*   void IncUnit(int& n)          { n += 1; if (n > 1) throw std::range_error("big"); }
\*   void ThrowObject()            { throw 42; }
\*   void Shout(std::string& s)    { s += "!"; }
apply(func, args) ==
    CASE func.id = "SimpleSum" -> Returned(CInt(args[1].x + args[2].x), args)
      [] func.id = "AddOneRef" ->
            Returned(CInt(args[1].x + 1), <<CInt(args[1].x + 1)>>)
      [] func.id = "ThrowIfZero" ->
            IF args[1].x = 0 THEN Raised([cls |-> "std", mesg |-> "zero"], args)
            ELSE Returned(args[1], args)
      [] func.id = "IncUnit" ->
            IF args[1].x + 1 > 1
            THEN Raised([cls |-> "std", mesg |-> "big"], <<CInt(args[1].x + 1)>>)
            ELSE Returned(Absent, <<CInt(args[1].x + 1)>>)
      [] func.id = "ThrowObject" -> Raised([cls |-> "other"], args)
      [] func.id = "Shout" -> Returned(Absent, <<CStr(args[1].s \o "!")>>)

-----------------------------------------------------------------------------
(* server_interface: handler wrappers *)

\* A handler's outcome: Ok(serial_obj), a throw or an abort, with what it
\* did on the way: inv (the callback ran), hit (the reply came from the
\* cache), and the cache and m_cache_map it leaves.
Done(r, inv, hit, c, cm) ==
    [st |-> r.st, val |-> IF r.st = "ok" THEN r.val ELSE JNull,
     ex |-> IF r.st = "throw" THEN r.ex ELSE [cls |-> "none"],
     inv |-> inv, hit |-> hit, c |-> c, cm |-> cm]

\* The catch clauses of the deserialize_pack step of dispatch_func and
\* dispatch_cached_func: an rpc_exception passes, any other std::exception
\* becomes a deserialization_error.
as_deserialization_error(r) ==
    IF r.st = "throw" /\ r.ex.cls = "std"
    THEN ThrowRpc(r.ex.mesg, deserialization)
    ELSE r

\* A faulty decoding step: without the catch clauses.
try_deserialize_pack_uncaught(R, Args, serial_obj, ub) ==
    deserialize_pack(R, Args, serial_obj, ub)

try_deserialize_pack(R, Args, serial_obj, ub) ==
    as_deserialization_error(deserialize_pack(R, Args, serial_obj, ub))

\* A faulty run_callback: the callback's exception is rethrown as a
\* serialization_error.
after_apply_wrong_kind(func, pack, r) ==
    IF r.st = "ret"
    THEN IF func.R.k = "void" THEN Ok([pack EXCEPT !.m_args = r.args])
         ELSE Ok(set_result([pack EXCEPT !.m_args = r.args], r.result))
    ELSE IF r.ex.cls = "other" THEN ThrowOther
    ELSE ThrowRpc(r.ex.mesg, serialization)

\* run_callback once std::apply has given r
after_apply(func, pack, r) ==
    IF r.st = "ret"
    THEN IF func.R.k = "void" THEN Ok([pack EXCEPT !.m_args = r.args])
         ELSE Ok(set_result([pack EXCEPT !.m_args = r.args], r.result))
    ELSE IF r.ex.cls = "other" THEN ThrowOther
    ELSE ThrowRpc(r.ex.mesg, remote_exec)

\* A faulty run_callback: an exception of the callback is swallowed and a
\* value-initialised result is set.
run_callback_swallow(func, pack) ==
    IF apply(func, pack.m_args).st = "ret"
    THEN after_apply(func, pack, apply(func, pack.m_args))
    ELSE Ok(set_result(pack, CInt(0)))

\* server_interface::run_callback
run_callback(func, pack) == after_apply(func, pack, apply(func, pack.m_args))

\* One step of a handler: r ends the handler when it is a throw or an
\* abort (inv says whether the callback had run), K goes on otherwise.
Step(r, inv, c, cm, K(_)) ==
    IF r.st = "ok" THEN K(r.val) ELSE Done(r, inv, FALSE, c, cm)

\* the callback is run on pack and the pack is serialized
call_and_serialize(func, pack, c, cm) ==
    Step(run_callback(func, pack), TRUE, c, cm,
         LAMBDA after : Done(Ok(serialize_pack(after)), TRUE, FALSE, c, cm))

\* server_interface::dispatch_func
dispatch_func(func, serial_obj, ub, c, cm) ==
    Step(try_deserialize_pack(func.R, func.Args, serial_obj, ub), FALSE, c, cm,
         LAMBDA pack : call_and_serialize(func, pack, c, cm))

\* server_interface::get_func_cache_impl<Val>: the bucket of func_name in
\* the function-local static map of Val, created empty on first use
get_func_cache_impl(c, Val, func_name) ==
    IF <<Val, func_name>> \in DOMAIN c THEN c ELSE c @@ (<<Val, func_name>> :> <<>>)

\* server_interface::update_all_cache<Val>
update_all_cache(cm, Val, func_name) ==
    [n \in (DOMAIN cm) \cup {func_name} |->
        IF n = func_name THEN <<Val, func_name>> ELSE cm[n]]

\* A faulty store: the value never reaches the cache.
cache_insert_dropped(c, bucket, bytes, value) == c

\* A faulty store: the new entry replaces the bucket.
cache_insert_wiping(c, bucket, bytes, value) == [c EXCEPT ![bucket] = (bytes :> value)]

\* result_cache[bytes] = value
cache_insert(c, bucket, bytes, value) ==
    [c EXCEPT ![bucket] =
        [b \in (DOMAIN c[bucket]) \cup {bytes} |-> IF b = bytes THEN value ELSE c[bucket][b]]]

\* dispatch_cached_func for a non-void R, with result_cache = c[bucket] and
\* bytes = to_bytes(serial_obj): the stored value is used, or the callback
\* is run and its value stored
cached_lookup(func, pack, bytes, bucket, c, cm) ==
    IF bytes \in DOMAIN c[bucket]
    THEN Done(Ok(serialize_pack(set_result(pack, c[bucket][bytes]))), FALSE, TRUE, c, cm)
    ELSE Step(run_callback(func, pack), TRUE, c, cm, LAMBDA after :
         Step(get_result(after), TRUE, c, cm, LAMBDA value :
              Done(Ok(serialize_pack(after)), TRUE, FALSE,
                   cache_insert(c, bucket, bytes, value), cm)))

\* dispatch_cached_func once the pack is there and get_func_cache has left
\* the static map c and the instance's map cm
cached_call(func, serial_obj, pack, c, cm) ==
    IF func.R.k # "void"
    THEN cached_lookup(func, pack, to_bytes(serial_obj), cm[pack.m_func_name], c, cm)
    ELSE call_and_serialize(func, pack, c, cm)

\* server_interface::dispatch_cached_func (RPC_HPP_ENABLE_SERVER_CACHE)
dispatch_cached_func(func, serial_obj, ub, c, cm) ==
    Step(try_deserialize_pack(func.R, func.Args, serial_obj, ub), FALSE, c, cm,
         LAMBDA pack : cached_call(func, serial_obj, pack,
                           get_func_cache_impl(c, func.R.k, pack.m_func_name),
                           update_all_cache(cm, func.R.k, pack.m_func_name)))

\* A faulty catch clause: the exception is written into an empty object.
catch_rpc_bare(serial_obj, r) ==
    IF r.st = "throw" /\ r.ex.cls = "rpc"
    THEN Done(Ok(set_exception(empty_object, r.ex)), r.inv, r.hit, r.c, r.cm)
    ELSE r

\* The catch clause of the lambdas stored by bind and bind_cached: a thrown
\* rpc_exception is written into the serial object, anything else leaves
\* the lambda.
catch_rpc(serial_obj, r) ==
    IF r.st = "throw" /\ r.ex.cls = "rpc"
    THEN Done(Ok(set_exception(serial_obj, r.ex)), r.inv, r.hit, r.c, r.cm)
    ELSE r

\* A faulty table: every stored lambda goes through the cache.
handler_always_cached(h, serial_obj, ub, c, cm) ==
    catch_rpc(serial_obj, dispatch_cached_func(h.func, serial_obj, ub, c, cm))

\* the lambda stored in m_dispatch_table by bind (cached = FALSE) and by
\* bind_cached (cached = TRUE)
handler(h, serial_obj, ub, c, cm) ==
    IF h.cached
    THEN catch_rpc(serial_obj, dispatch_cached_func(h.func, serial_obj, ub, c, cm))
    ELSE catch_rpc(serial_obj, dispatch_func(h.func, serial_obj, ub, c, cm))

\* What dispatch gives its caller: reply bytes, or an exception that leaves
\* dispatch, or the end of the process. looked says m_dispatch_table.find
\* was reached, with fname the name searched, and found that it gave a
\* handler, which then was called.
Outcome(r, looked, found, fname) ==
    [st |-> IF r.st = "ok" THEN "reply" ELSE r.st,
     bytes |-> IF r.st = "ok" THEN to_bytes(r.val) ELSE <<>>,
     ex |-> r.ex, looked |-> looked, found |-> found, fname |-> fname,
     inv |-> r.inv, hit |-> r.hit, c |-> r.c, cm |-> r.cm]

\* a reply that carries an exception and involved no handler
error_reply(serial_obj, mesg, type, looked, fname, c, cm) ==
    Outcome(Done(Ok(set_exception(serial_obj, rpc_exception(mesg, type))),
                 FALSE, FALSE, c, cm), looked, FALSE, fname)

\* A faulty lookup: the message names the function without the quotes.
dispatch_named_unquoted(table, serial_obj, func_name, ub, c, cm) ==
    IF func_name \in DOMAIN table
    THEN Outcome(handler(table[func_name], serial_obj, ub, c, cm), TRUE, TRUE, func_name)
    ELSE error_reply(serial_obj,
                     "RPC error: Called function: " \o func_name \o " not found",
                     func_not_found, TRUE, func_name, c, cm)

\* dispatch once func_name is read: the table lookup
dispatch_named(table, serial_obj, func_name, ub, c, cm) ==
    IF func_name \in DOMAIN table
    THEN Outcome(handler(table[func_name], serial_obj, ub, c, cm), TRUE, TRUE, func_name)
    ELSE error_reply(serial_obj,
                     "RPC error: Called function: \"" \o func_name \o "\" not found",
                     func_not_found, TRUE, func_name, c, cm)

\* dispatch on a serial object: r is what get_func_name gave, a name, a
\* throw or an abort
dispatch_object(table, serial_obj, r, ub, c, cm) ==
    IF r.st # "ok" THEN Outcome(Done(r, FALSE, FALSE, c, cm), FALSE, FALSE, "")
    ELSE dispatch_named(table, serial_obj, r.val, ub, c, cm)

\* A faulty dispatch: a rejected buffer is answered with a server_send error.
dispatch_parsed_wrong_kind(table, o, ub, c, cm) ==
    IF ~o.has
    THEN error_reply(empty_object, "Invalid RPC object received", server_send,
                     FALSE, "", c, cm)
    ELSE dispatch_object(table, o.val, get_func_name(o.val, ub), ub, c, cm)

\* dispatch once from_bytes has given o
dispatch_parsed(table, o, ub, c, cm) ==
    IF ~o.has
    THEN error_reply(empty_object, "Invalid RPC object received", server_receive,
                     FALSE, "", c, cm)
    ELSE dispatch_object(table, o.val, get_func_name(o.val, ub), ub, c, cm)

\* server_interface::dispatch on a server whose table is table
dispatch(table, bytes, ub, c, cm) ==
    dispatch_parsed(table, from_bytes(bytes), ub, c, cm)

-----------------------------------------------------------------------------
(* client_interface *)

\* client_interface::serialize_call<R, Args...>: the pack has no result yet
serialize_call(R, func_name, args) ==
    to_bytes(serialize_pack(packed_func(R, func_name, Absent, args)))

\* detail::decay_str_t over a parameter list: decay_str<T>::type is T for
\* every type but the string literals (q = "lit"), which become
\* const std::string&
decay_str_t(Args) ==
    [i \in 1..Len(Args) |-> IF Args[i].q = "lit" THEN TStringCRef ELSE Args[i]]

\* A faulty deserialize_call: a rejected reply is a deserialization_error.
deserialize_reply_unchecked(R, Args, ret_obj, ub) ==
    IF ~ret_obj.has
    THEN ThrowRpc("Client received invalid RPC object", deserialization)
    ELSE as_deserialization_error(deserialize_pack(R, decay_str_t(Args), ret_obj.val, ub))

\* deserialize_call once from_bytes has given ret_obj
deserialize_reply(R, Args, ret_obj, ub) ==
    IF ~ret_obj.has
    THEN ThrowRpc("Client received invalid RPC object", client_receive)
    ELSE as_deserialization_error(deserialize_pack(R, decay_str_t(Args), ret_obj.val, ub))

\* client_interface::deserialize_call<R, Args...>
deserialize_call(R, Args, bytes, ub) ==
    deserialize_reply(R, Args, from_bytes(bytes), ub)

\* A faulty tuple_bind: every argument is assigned.
tuple_bind_all(src, Args, dest) == src

\* detail::tuple_bind(src, dest...): Args are the deduced types of the
\* caller's arguments. x is bound by auto&&, so decltype(x) is always a
\* reference; the assignment is compiled for every dest that is neither
\* const (a const lvalue, a string literal) nor a pointer. For an rvalue
\* (q = "val") the slot written is the caller's temporary.
tuple_bind(src, Args, dest) ==
    [i \in 1..Len(dest) |-> IF Args[i].q \in {"cref", "lit"} THEN dest[i] ELSE src[i]]

\* The end of call_func: tuple_bind copies the pack's arguments into the
\* caller's args, then get_result returns or throws.
call_return(Args, args, pack) ==
    Then(get_result(pack),
         LAMBDA result : Ok([result |-> result,
                             args |-> tuple_bind(pack.m_args, Args, args)]))

\* A faulty catch clause: send's exception is thrown as a client_receive_error.
catch_send_as_receive(r) ==
    IF r.st = "throw" /\ r.ex.cls = "std" THEN ThrowRpc(r.ex.mesg, client_receive) ELSE r

\* The catch clauses around send and around receive in call_func: a
\* std::exception becomes a client_send_error / client_receive_error with
\* its what(); anything else passes.
catch_send(r) ==
    IF r.st = "throw" /\ r.ex.cls = "std" THEN ThrowRpc(r.ex.mesg, client_send) ELSE r

catch_receive(r) ==
    IF r.st = "throw" /\ r.ex.cls = "std" THEN ThrowRpc(r.ex.mesg, client_receive) ELSE r

\* What a call of call_func came to: r is the value returned or the
\* exception thrown, received says receive() was called, parsed that the
\* bytes it returned were handed to deserialize_call, args is what the
\* caller's arguments hold when call_func is left.
Trace(r, received, parsed, args) ==
    [r |-> r, received |-> received, parsed |-> parsed, args |-> args]

\* the caller's arguments once deserialize_call has given r: tuple_bind
\* runs when it gave a pack, before get_result is called
args_left(Args, args, r) ==
    IF r.st = "ok" THEN tuple_bind(r.val.m_args, Args, args) ELSE args

\* client_interface::call_func<R, Args...>(func_name, args...) from send()
\* on: sent is what send() did, got what receive() does when it is called.
call_func(R, Args, args, sent, got, ub) ==
    IF catch_send(sent).st # "ok" THEN Trace(catch_send(sent), FALSE, FALSE, args)
    ELSE IF catch_receive(got).st # "ok" THEN Trace(catch_receive(got), TRUE, FALSE, args)
    ELSE Trace(Then(deserialize_call(R, Args, got.val, ub),
                    LAMBDA pack : call_return(Args, args, pack)), TRUE, TRUE,
               args_left(Args, args, deserialize_call(R, Args, got.val, ub)))

\* no client took part
NoClient == Trace([st |-> "none"], FALSE, FALSE, <<>>)

-----------------------------------------------------------------------------
(* The byte buffers handed to dispatch *)

Servers == {"S1", "S2"}

RECURSIVE IntTuples(_)
\* the tuples of n integers of 0..MaxInt
IntTuples(n) ==
    IF n = 0 THEN {<<>>}
    ELSE {Append(t, CInt(v)) : t \in IntTuples(n - 1), v \in 0..MaxInt}

\* The requests a client makes for callback func under its own name.
ClientRequests(func) ==
    {serialize_call(func.R, func.id, a) : a \in IntTuples(Len(func.Args))}

Request(func_name, args) ==
    JObj(("func_name" :> JStr(func_name)) @@ ("args" :> JArr(args)))

Zeros(n) == [i \in 1..n |-> JInt(0)]

\* args sequences of every length up to MaxArgs, and some with an element
\* of another type
ArgLists ==
    {Zeros(n) : n \in 0..MaxArgs}
        \cup {<<JStr("oops")>>, <<JInt(1), JStr("oops")>>, <<JFloat(1)>>,
              <<JBool(TRUE)>>, <<JNull>>}

RequestNames == {f.id : f \in Callbacks} \cup {"DoesNotExist", ""}

PlainRequests == {to_bytes(Request(n, a)) : n \in RequestNames, a \in ArgLists}

\* Objects with other members than a client writes.
OddObjects ==
    LET sum == Request("SimpleSum", <<JInt(1), JInt(1)>>)
        inc == Request("AddOneRef", <<JInt(0)>>)
        err(o) == json_set(json_set(o, "except_type", JInt(remote_exec)),
                           "err_mesg", JStr("boom"))
    IN  { json_set(sum, "result", JInt(1)),
          json_set(sum, "result", JStr("oops")),
          json_set(err(sum), "result", JInt(1)),
          err(sum), err(inc),
          json_set(inc, "except_type", JInt(none)),
          json_set(err(inc), "err_mesg", JInt(1)),
          err(JObj(NoFields)),
          json_set(JObj(NoFields), "except_type", JInt(none)),
          json_set(json_set(inc, "func_name", JInt(1)), "except_type", JInt(none)),
          json_set(json_set(inc, "args", JInt(1)), "except_type", JInt(none)),
          json_set(inc, "func_name", JInt(1)),
          json_set(inc, "args", JInt(1)),
          JObj("func_name" :> JStr("AddOneRef")),
          json_set(JObj(NoFields), "except_type", JInt(remote_exec)) }

\* Buffers that are no msgpack value, no object, or an object written with
\* its members in another order.
RawBuffers ==
    { <<>>,
      <<WMap(2), WStr("func_name"), WStr("AddOneRef")>>,
      <<WMap(1), WInt(1), WInt(1)>>,
      to_msgpack(JArr(<<>>)) \o <<WNil>>,
      to_msgpack(JArr(<<JStr("AddOneRef")>>)),
      to_msgpack(JInt(1)),
      <<WMap(2), WStr("func_name"), WStr("AddOneRef"), WStr("args"), WArr(1), WInt(0)>> }

Requests ==
    (UNION {ClientRequests(f) : f \in Callbacks}) \cup PlainRequests
        \cup {to_bytes(o) : o \in OddObjects} \cup RawBuffers

\* The requests of the cache runs: client requests of three callbacks and
\* one request that carries an error.
CacheCallbacks == {AddOneRef, ThrowIfZero, IncUnit}

CacheRequests ==
    (UNION {ClientRequests(f) : f \in CacheCallbacks})
        \cup {to_bytes(json_set(json_set(Request("AddOneRef", <<JInt(0)>>),
                  "except_type", JInt(remote_exec)), "err_mesg", JStr("boom")))}

\* The callbacks bound on the server that clients call.
ClientCallbacks == Callbacks \cup {Shout}

RECURSIVE ArgValues(_, _)
\* the argument tuples for parameters i.. of Args: integers of 0..MaxInt
\* and the string "oops"
ArgValues(Args, i) ==
    IF i > Len(Args) THEN {<<>>}
    ELSE {<<v>> \o rest :
             v \in (IF Args[i].k = "string" THEN {CStr("oops")}
                    ELSE {CInt(n) : n \in 0..MaxInt}),
             rest \in ArgValues(Args, i + 1)}

\* How a caller passes its arguments, which Args&&... deduces the types
\* from: rvalues (T), non-const lvalues (T&), const lvalues (const T&).
Passing == {"val", "ref", "cref"}

Passed(Args, q) == [i \in 1..Len(Args) |-> [k |-> Args[i].k, q |-> q]]

\* call_func<R>(func_name, args...) with Args the deduced argument types
Call(func_name, R, Args, args) ==
    [id |-> func_name, R |-> R, Args |-> Args, args |-> args]

NoCall == Call("", TVoid, <<>>, <<>>)

\* the call together with the transport t it went over
Via(call, t) ==
    [id |-> call.id, R |-> call.R, Args |-> call.Args, args |-> call.args, t |-> t]

\* Calls with the signature of a callback, under its name or under a name
\* nothing is bound to.
DeclaredCalls ==
    UNION {{Call(n, f.R, Passed(f.Args, q), a) :
               n \in {f.id, "DoesNotExist"}, q \in Passing, a \in ArgValues(f.Args, 1)} :
           f \in ClientCallbacks}

\* Calls with another signature than the callback of that name has, and a
\* call with a string literal.
OtherCalls ==
    { Call("SimpleSum", TInt, <<TInt>>, <<CInt(1)>>),
      Call("ThrowIfZero", TInt, <<TString>>, <<CStr("oops")>>),
      Call("AddOneRef", TInt, <<TStringCRef>>, <<CStr("oops")>>),
      Call("AddOneRef", TInt, <<TIntRef, TIntRef>>, <<CInt(0), CInt(0)>>),
      Call("IncUnit", TInt, <<TIntRef>>, <<CInt(0)>>),
      Call("AddOneRef", TVoid, <<TIntRef>>, <<CInt(0)>>),
      Call("Shout", TVoid, <<TStringLit>>, <<CStr("oops")>>) }

ClientCalls == DeclaredCalls \cup OtherCalls

\* The names the host binds a callback under: its own, and for ThrowIfZero
\* also the name of AddOneRef.
BindNames(func) ==
    IF func.id = "ThrowIfZero" THEN {func.id, "AddOneRef"} ELSE {func.id}

-----------------------------------------------------------------------------
(* State machine *)

NoOp == [op |-> "none", st |-> "none"]

NoHandler == [func |-> [id |-> "", R |-> TVoid, Args |-> <<>>], cached |-> FALSE]

\* The threads of the host that call dispatch on server S1.
Threads == {"T1", "T2"}

\* A thread that is in no dispatch. A thread in a dispatch keeps the
\* request (req), the serial object (obj), the handler (h) and the pack of
\* the call, the cache bucket and key it uses, and in the end the reply
\* (out). inv: the callback was invoked; ret: it returned; present: find
\* gave an entry; hit: the reply was made from it; ready: when find ran,
\* the callback of some dispatch had returned for this bucket and key;
\* wrote: the shared maps the dispatch has written; table: the dispatch
\* table when the dispatch began.
NoThread ==
    [pc |-> "idle", req |-> <<>>, ub |-> "null", table |-> <<>>, obj |-> JNull, h |-> NoHandler,
     pack |-> packed_func(TVoid, "", Absent, <<>>), bucket |-> <<>>, key |-> <<>>,
     out |-> [st |-> "none", bytes |-> <<>>], inv |-> FALSE, ret |-> FALSE,
     present |-> FALSE, hit |-> FALSE, ready |-> FALSE, wrote |-> {}]

Init ==
    /\ m_dispatch_table = [s \in Servers |-> <<>>]
    /\ m_cache_map = [s \in Servers |-> <<>>]
    /\ cache = <<>>
    /\ owner = <<>>
    /\ seen = <<>>
    /\ fresh = [s \in Servers |-> FALSE]
    /\ last = NoOp
    /\ bound = [s \in Servers |-> <<>>]
    /\ thread = [t \in Threads |-> NoThread]
    /\ nbinds = 0
    /\ nops = 0

\* The server process is still there: no operation has ended it.
Alive == last.st # "abort"

\* std::unordered_map::emplace: an existing key keeps its value
emplace(table, func_name, h) ==
    IF func_name \in DOMAIN table THEN table ELSE table @@ (func_name :> h)

\* server_interface::bind and server_interface::bind_cached
BindAs(s, func_name, func, cached) ==
    /\ Alive
    /\ nbinds < MaxBinds
    /\ m_dispatch_table' = [m_dispatch_table EXCEPT
           ![s] = emplace(@, func_name, [func |-> func, cached |-> cached])]
    /\ nbinds' = nbinds + 1
    /\ bound' = [bound EXCEPT ![s] = (func_name :> [func |-> func, cached |-> cached]) @@ @]
    /\ last' = [op |-> "bind", st |-> "ok"]
    /\ UNCHANGED <<m_cache_map, cache, owner, seen, fresh, thread, nops>>

Bind(s, func_name, func) == BindAs(s, func_name, func, FALSE)

BindCached(s, func_name, func) == BindAs(s, func_name, func, TRUE)

\* The cache entries (bucket, request bytes) of c
Entries(c) == UNION {{<<b, k>> : k \in DOMAIN c[b]} : b \in DOMAIN c}

\* the handler that dispatch outcome o called
HandlerOf(table, o) == IF o.found THEN table[o.fname] ELSE NoHandler

\* History of the dispatches of one request to a cached binding.
NoPast == [n |-> 0, calls |-> 0, hits |-> 0, raised |-> FALSE, replies |-> {}]

Past(sn, key) == IF key \in DOMAIN sn THEN sn[key] ELSE NoPast

\* one more dispatch with outcome o: the callback ran (inv) or not, the
\* reply came from the cache (hit) or not, the reply carries an error or not
Bump(old, o) ==
    [n |-> old.n + 1,
     calls |-> old.calls + (IF o.inv THEN 1 ELSE 0),
     hits |-> old.hits + (IF o.hit THEN 1 ELSE 0),
     raised |-> old.raised \/ o.st # "reply"
                    \/ contains(from_msgpack(o.bytes).val, "except_type"),
     replies |-> old.replies \cup (IF o.st = "reply" THEN {o.bytes} ELSE {})]

Record(sn, key, o) ==
    [k \in (DOMAIN sn) \cup {key} |-> IF k = key THEN Bump(Past(sn, key), o) ELSE sn[k]]

\* the instance whose dispatch stored the entry that outcome o was served from
HitOwner(s, bytes, o) ==
    IF o.hit THEN owner[<<o.cm[o.fname], to_bytes(from_bytes(bytes).val)>>] ELSE s

\* Server s has answered buffer bytes with outcome o, through handler h;
\* cl is what the calling client made of it, in call the call it made. last keeps the table the
\* dispatch started from (table), the static cache it started from (was)
\* and whether it left the cache and the instance's cache map as they were
\* (kept).
Commit(s, bytes, o, h, cl, call) ==
    /\ cache' = o.c
    /\ m_cache_map' = [m_cache_map EXCEPT ![s] = o.cm]
    /\ owner' = [e \in (DOMAIN owner) \cup Entries(o.c) |->
                    IF e \in DOMAIN owner THEN owner[e] ELSE s]
    /\ seen' = IF o.found /\ h.cached THEN Record(seen, <<s, o.fname, bytes>>, o) ELSE seen
    /\ last' = [op |-> "dispatch", st |-> o.st, s |-> s, req |-> bytes,
                bytes |-> o.bytes, ex |-> o.ex, looked |-> o.looked, found |-> o.found,
                inv |-> o.inv, hit |-> o.hit, h |-> h, fname |-> o.fname,
                fresh |-> fresh[s], from |-> HitOwner(s, bytes, o), client |-> cl.r,
                received |-> cl.received, parsed |-> cl.parsed, left |-> cl.args,
                call |-> call,
                table |-> m_dispatch_table[s], bound |-> bound[s], was |-> cache,
                kept |-> (o.c = cache /\ o.cm = m_cache_map[s])]
    /\ fresh' = [fresh EXCEPT ![s] = FALSE]
    /\ nops' = nops + 1
    /\ UNCHANGED <<m_dispatch_table, bound, thread, nbinds>>

\* server_interface::dispatch called on server s with buffer bytes
DispatchOn(s, bytes, o) ==
    /\ Alive
    /\ Commit(s, bytes, o, HandlerOf(m_dispatch_table[s], o), NoClient, Via(NoCall, "ok"))

\* One dispatch on a server that has not dispatched before.
FirstDispatch(s, bytes, ub) ==
    /\ nops = 0
    /\ DispatchOn(s, bytes, dispatch(m_dispatch_table[s], bytes, ub, cache, m_cache_map[s]))

\* One of up to MaxOps operations in a row.
Dispatch(s, bytes, ub) ==
    /\ nops < MaxOps
    /\ DispatchOn(s, bytes, dispatch(m_dispatch_table[s], bytes, ub, cache, m_cache_map[s]))

\* What the client's transport does with one call: it carries request and
\* reply, or hands the server the request without its last byte ("cut"),
\* or send() throws, or receive() throws, or receive() returns the reply
\* without its last byte ("garbled").
Transport == {"ok", "cut", "send_std", "send_other", "recv_std", "recv_other", "garbled"}

\* client_interface::send, written by the user
send(t) ==
    CASE t = "send_std" -> ThrowStd("link down")
      [] t = "send_other" -> ThrowOther
      [] OTHER -> Ok(<<>>)

transmit(bytes, t) == IF t = "cut" THEN SubSeq(bytes, 1, Len(bytes) - 1) ELSE bytes

\* client_interface::receive, written by the user, after the server has
\* answered with outcome o: a server that gave no reply makes it throw
receive(o, t) ==
    CASE t = "recv_std" -> ThrowStd("timed out")
      [] t = "recv_other" -> ThrowOther
      [] o.st # "reply" -> ThrowStd("no reply")
      [] t = "garbled" -> Ok(SubSeq(o.bytes, 1, Len(o.bytes) - 1))
      [] OTHER -> Ok(o.bytes)

\* send() has handed server s the buffer bytes, answered with outcome o
CallOn(s, call, bytes, o, t, ub) ==
    Commit(s, bytes, o, HandlerOf(m_dispatch_table[s], o),
           call_func(call.R, call.Args, call.args, send(t), receive(o, t), ub),
           Via(call, t))

\* send() has thrown: no server is reached
NotSent(s, call, t, ub) ==
    /\ last' = [op |-> "call", st |-> "ok", s |-> s,
                client |-> call_func(call.R, call.Args, call.args, send(t), Abort, ub).r,
                received |-> call_func(call.R, call.Args, call.args, send(t), Abort, ub).received,
                parsed |-> call_func(call.R, call.Args, call.args, send(t), Abort, ub).parsed,
                left |-> call_func(call.R, call.Args, call.args, send(t), Abort, ub).args,
                call |-> Via(call, t)]
    /\ nops' = nops + 1
    /\ UNCHANGED <<m_dispatch_table, m_cache_map, cache, owner, seen, fresh, bound, thread, nbinds>>

\* client_interface::call_func<call.R>(call.id, call.args...) by a client
\* of server s over transport t
CallFunc(s, call, t, ub) ==
    /\ nops = 0
    /\ Alive
    /\ IF send(t).st = "ok"
       THEN CallOn(s, call, transmit(serialize_call(call.R, call.id, call.args), t),
                   dispatch(m_dispatch_table[s],
                            transmit(serialize_call(call.R, call.id, call.args), t),
                            ub, cache, m_cache_map[s]),
                   t, ub)
       ELSE NotSent(s, call, t, ub)

\* server_interface::clear_all_cache
ClearAllCache(s) ==
    /\ Alive
    /\ nops < MaxOps
    /\ m_cache_map' = [m_cache_map EXCEPT ![s] = <<>>]
    /\ fresh' = [fresh EXCEPT ![s] = TRUE]
    /\ seen' = [k \in {x \in DOMAIN seen : x[1] # s} |-> seen[k]]
    /\ last' = [op |-> "clear", st |-> "ok", s |-> s]
    /\ nops' = nops + 1
    /\ UNCHANGED <<m_dispatch_table, cache, owner, bound, thread, nbinds>>

\* Every single dispatch, of every buffer, on one server after its binds.
Next ==
    \/ \E f \in Callbacks : \E n \in BindNames(f) : Bind("S1", n, f)
    \/ \E f \in Callbacks : \E n \in BindNames(f) : BindCached("S1", n, f)
    \/ \E b \in Requests : \E ub \in UBOutcomes : FirstDispatch("S1", b, ub)

Spec == Init /\ [][Next]_vars

\* Sequences of dispatches and cache clears on two servers with cached
\* and uncached bindings.
NextCache ==
    \/ \E s \in Servers : \E f \in CacheCallbacks : \E n \in BindNames(f) : BindCached(s, n, f)
    \/ \E s \in Servers : \E f \in CacheCallbacks : \E n \in BindNames(f) : Bind(s, n, f)
    \/ \E s \in Servers : \E b \in CacheRequests : \E ub \in UBOutcomes : Dispatch(s, b, ub)
    \/ \E s \in Servers : ClearAllCache(s)

SpecCache == Init /\ [][NextCache]_vars

\* Every call of a client, over every transport, to one server after its
\* binds.
NextClient ==
    \/ \E f \in ClientCallbacks : Bind("S1", f.id, f)
    \/ \E f \in ClientCallbacks : BindCached("S1", f.id, f)
    \/ \E call \in ClientCalls : \E t \in Transport : \E ub \in UBOutcomes :
           CallFunc("S1", call, t, ub)

SpecClient == Init /\ [][NextClient]_vars

-----------------------------------------------------------------------------
(* A packed_func on its own: built, changed through its member functions,
   and taken through serialize_pack and deserialize_pack *)

\* The argument-type lists of the packs: none, scalars, strings, containers
\* of scalars, a tuple, a container of containers, a container of tuples.
ArgTypeLists ==
    { <<>>, <<TInt>>, <<TBool>>, <<TString>>, <<TInt, TString>>,
      <<TVec(TInt)>>, <<TVec(TString)>>, <<TInt, TVec(TInt)>>,
      <<TTuple(<<TInt, TInt>>)>>, <<TTuple(<<TString, TVec(TInt)>>)>>,
      <<TVec(TVec(TInt))>>, <<TVec(TTuple(<<TInt, TInt>>))>> }

RECURSIVE ValuesOf(_), TuplesOf(_, _), SeqsOf(_, _)

\* the values of type T: integers of 0..MaxInt, one string, vectors of up
\* to MaxLen elements
ValuesOf(T) ==
    CASE T.k = "int" -> {CInt(n) : n \in 0..MaxInt}
      [] T.k = "bool" -> {CBool(b) : b \in BOOLEAN}
      [] T.k = "string" -> {CStr("oops")}
      [] T.k = "vec" -> {CVec(e) : e \in UNION {SeqsOf(T.of, n) : n \in 0..MaxLen}}
      [] T.k = "tuple" -> {CTuple(e) : e \in TuplesOf(T.of, 1)}

\* the tuples of values of the types Ts[i], Ts[i + 1], ...
TuplesOf(Ts, i) ==
    IF i > Len(Ts) THEN {<<>>}
    ELSE {<<v>> \o rest : v \in ValuesOf(Ts[i]), rest \in TuplesOf(Ts, i + 1)}

\* the sequences of n values of type T
SeqsOf(T, n) ==
    IF n = 0 THEN {<<>>}
    ELSE {Append(e, v) : e \in SeqsOf(T, n - 1), v \in ValuesOf(T)}

\* std::optional<R> for the result types void and int
ResultsOf(R) == IF R.k = "void" THEN {Absent} ELSE {Absent} \cup {Present(v) : v \in ValuesOf(R)}

ErrorKinds == none..server_receive

\* The pack, the types Args it was declared with, and what
\* deserialize_pack<R, Args...>(serialize_pack(pack)) gives.
Packed(pack, Args) ==
    [op |-> "pack", st |-> "ok", pack |-> pack, Args |-> Args,
     trip |-> deserialize_pack(pack.R, Args, serialize_pack(pack), "null")]

PackStep(pack) ==
    /\ last.op = "pack"
    /\ nops < MaxOps
    /\ last' = Packed(pack, last.Args)
    /\ nops' = nops + 1
    /\ UNCHANGED <<m_dispatch_table, m_cache_map, cache, owner, seen, fresh, bound, thread, nbinds>>

\* packed_func<R, Args...>(func_name, result, args)
Construct(R, Args, result, args) ==
    /\ last = NoOp
    /\ last' = Packed(packed_func(R, "Fn", result, args), Args)
    /\ UNCHANGED <<m_dispatch_table, m_cache_map, cache, owner, seen, fresh, bound, thread, nbinds, nops>>

\* packed_func::set_result (R is not void)
SetResult(value) ==
    /\ last.op = "pack" /\ last.pack.R.k # "void"
    /\ PackStep(set_result(last.pack, value))

\* packed_func::clear_result (R is not void)
ClearResult ==
    /\ last.op = "pack" /\ last.pack.R.k # "void"
    /\ PackStep(clear_result(last.pack))

\* packed_func_base::set_exception
SetException(mesg, type) == PackStep(pack_set_exception(last.pack, mesg, type))

NextPack ==
    \/ \E R \in {TVoid, TInt} : \E Args \in ArgTypeLists : \E result \in ResultsOf(R) :
           \E args \in TuplesOf(Args, 1) : Construct(R, Args, result, args)
    \/ \E value \in ValuesOf(TInt) : SetResult(value)
    \/ ClearResult
    \/ \E mesg \in {"", "boom"} : \E type \in ErrorKinds : SetException(mesg, type)

SpecPack == Init /\ [][NextPack]_vars

-----------------------------------------------------------------------------
(* Host threads that call dispatch on server S1 at the same time. The code
   takes no lock: a dispatch is a sequence of steps on the shared maps
   (get_func_cache, find, operator[], the assignment of the result), and
   the steps of two threads interleave. *)

\* What an access to a std::unordered_map does while another thread uses
\* the same map without synchronisation (a data race): it goes through or
\* the process ends.
RaceOutcomes == {"ok", "abort"}

InFlight(u) == thread[u].pc \notin {"idle", "done"}

\* Another thread is in a dispatch under a cached binding, which uses
\* m_cache_map and, with b given, its bucket b.
Racing(t, b) ==
    \E u \in Threads \ {t} :
        InFlight(u) /\ thread[u].h.cached /\ (b = <<>> \/ thread[u].bucket = b)

\* what dispatch returns once the handler of th has come to r
ThreadOutcome(th, r) ==
    Outcome(catch_rpc(th.obj, Done(r, FALSE, FALSE, <<>>, <<>>)), TRUE, TRUE, th.h.func.id)

\* the dispatch of th has ended with outcome o
Finished(th, o) == [th EXCEPT !.pc = "done", !.out = [st |-> o.st, bytes |-> o.bytes]]

Crashed(th) == Finished(th, [st |-> "abort", bytes |-> <<>>])

\* Thread t has come to rec and has left the static cache as c and the
\* instance's m_cache_map as cm.
ThreadStep(t, rec, c, cm) ==
    /\ thread' = [thread EXCEPT ![t] = rec]
    /\ cache' = c
    /\ m_cache_map' = [m_cache_map EXCEPT !["S1"] = cm]
    /\ last' = [op |-> "thread", st |-> IF rec.out.st = "abort" THEN "abort" ELSE "ok"]
    /\ UNCHANGED <<m_dispatch_table, owner, seen, fresh, bound, nbinds, nops>>

\* dispatch_func and dispatch_cached_func up to the cache lookup:
\* deserialize_pack has given r; under a cached binding get_func_cache<R>
\* creates the bucket on first use and writes m_cache_map
Entered(t, th, race, r) ==
    IF r.st # "ok" THEN ThreadStep(t, Finished(th, ThreadOutcome(th, r)), cache, m_cache_map["S1"])
    ELSE IF ~th.h.cached
    THEN ThreadStep(t, [th EXCEPT !.pc = "call", !.pack = r.val], cache, m_cache_map["S1"])
    ELSE IF race = "abort" THEN ThreadStep(t, Crashed(th), cache, m_cache_map["S1"])
    ELSE ThreadStep(t,
             [th EXCEPT !.pc = IF th.h.func.R.k = "void" THEN "call" ELSE "find",
                        !.pack = r.val,
                        !.bucket = <<th.h.func.R.k, r.val.m_func_name>>,
                        !.key = to_bytes(th.obj),
                        !.wrote = {<<"m_cache_map", "">>} \cup
                                  (IF <<th.h.func.R.k, r.val.m_func_name>> \in DOMAIN cache
                                   THEN {} ELSE {<<"static", th.h.func.R.k>>})],
             get_func_cache_impl(cache, th.h.func.R.k, r.val.m_func_name),
             update_all_cache(m_cache_map["S1"], th.h.func.R.k, r.val.m_func_name))

\* dispatch has looked the request up: o is what dispatch gives when no
\* handler is found
Entering(t, bytes, ub, race, o) ==
    IF ~o.found
    THEN ThreadStep(t, Finished([NoThread EXCEPT !.req = bytes, !.ub = ub, !.table = m_dispatch_table["S1"]], o),
                    cache, m_cache_map["S1"])
    ELSE Entered(t, [NoThread EXCEPT !.req = bytes, !.ub = ub, !.table = m_dispatch_table["S1"],
                                     !.obj = from_bytes(bytes).val,
                                     !.h = m_dispatch_table["S1"][o.fname]],
                 race,
                 try_deserialize_pack(m_dispatch_table["S1"][o.fname].func.R,
                                      m_dispatch_table["S1"][o.fname].func.Args,
                                      from_bytes(bytes).val, ub))

\* Thread t calls dispatch(bytes) and runs it up to the cache lookup.
Begin(t, bytes, ub, race) ==
    /\ Alive
    /\ thread[t].pc = "idle"
    /\ race = "ok" \/ Racing(t, <<>>)
    /\ Entering(t, bytes, ub, race,
                dispatch(m_dispatch_table["S1"], bytes, ub, cache, m_cache_map["S1"]))

\* the callback of some dispatch has returned for the bucket and key of th
Ready(th) ==
    \E u \in Threads : thread[u].ret /\ thread[u].bucket = th.bucket /\ thread[u].key = th.key

\* result_cache.find(bytes) has run in th
Found(th) ==
    IF th.key \in DOMAIN cache[th.bucket]
    THEN Finished([th EXCEPT !.hit = TRUE],
                  ThreadOutcome(th, Ok(serialize_pack(
                      set_result(th.pack, cache[th.bucket][th.key])))))
    ELSE [th EXCEPT !.pc = "call"]

\* dispatch_cached_func: result_cache.find(bytes), and on a hit
\* set_result, serialize_pack, return
Find(t, race) ==
    /\ Alive
    /\ thread[t].pc = "find"
    /\ race = "ok" \/ Racing(t, thread[t].bucket)
    /\ ThreadStep(t, IF race = "abort" THEN Crashed(thread[t])
                     ELSE [Found(thread[t]) EXCEPT
                              !.present = thread[t].key \in DOMAIN cache[thread[t].bucket],
                              !.ready = Ready(thread[t])],
                  cache, m_cache_map["S1"])

\* run_callback has given r in th; under a cached binding
\* pack.get_result(), the right side of the assignment to the cache
\* entry, comes next and throws when the pack carries an error
Ran(th, r) ==
    IF r.st # "ok" THEN Finished([th EXCEPT !.inv = TRUE], ThreadOutcome(th, r))
    ELSE IF th.h.cached /\ th.h.func.R.k # "void" /\ get_result(r.val).st # "ok"
    THEN Finished([th EXCEPT !.pack = r.val, !.inv = TRUE,
                             !.ret = apply(th.h.func, th.pack.m_args).st = "ret"],
                  ThreadOutcome(th, get_result(r.val)))
    ELSE IF th.h.cached /\ th.h.func.R.k # "void"
    THEN [th EXCEPT !.pc = "slot", !.pack = r.val, !.inv = TRUE,
                    !.ret = apply(th.h.func, th.pack.m_args).st = "ret"]
    ELSE Finished([th EXCEPT !.pack = r.val, !.inv = TRUE,
                             !.ret = apply(th.h.func, th.pack.m_args).st = "ret"],
                  ThreadOutcome(th, Ok(serialize_pack(r.val))))

\* run_callback(func, pack), and without a cache serialize_pack
Invoke(t) ==
    /\ Alive
    /\ thread[t].pc = "call"
    /\ ThreadStep(t, Ran(thread[t], run_callback(thread[t].h.func, thread[t].pack)),
                  cache, m_cache_map["S1"])

\* result_cache[bytes] = pack.get_result(), the left side: operator[]
\* inserts a value-initialised entry (an int 0) when the key is not there
Slot(t, race) ==
    /\ Alive
    /\ thread[t].pc = "slot"
    /\ race = "ok" \/ Racing(t, thread[t].bucket)
    /\ IF race = "abort" THEN ThreadStep(t, Crashed(thread[t]), cache, m_cache_map["S1"])
       ELSE ThreadStep(t, [thread[t] EXCEPT !.pc = "assign", !.wrote = @ \cup {thread[t].bucket}],
                       IF thread[t].key \in DOMAIN cache[thread[t].bucket] THEN cache
                       ELSE cache_insert(cache, thread[t].bucket, thread[t].key, CInt(0)),
                       m_cache_map["S1"])

\* result_cache[bytes] = pack.get_result(), the assignment, and then
\* serialize_pack
Assign(t) ==
    /\ Alive
    /\ thread[t].pc = "assign"
    /\ ThreadStep(t, Finished(thread[t], ThreadOutcome(thread[t], Ok(serialize_pack(thread[t].pack)))),
                  cache_insert(cache, thread[t].bucket, thread[t].key,
                               get_result(thread[t].pack).val),
                  m_cache_map["S1"])

\* No thread has called dispatch yet: the host is still configuring.
Configuring == \A t \in Threads : thread[t].pc = "idle"

\* The host binds, then its threads dispatch at the same time.
NextThreads ==
    \/ Configuring /\ \E f \in CacheCallbacks : Bind("S1", f.id, f)
    \/ Configuring /\ \E f \in CacheCallbacks : BindCached("S1", f.id, f)
    \/ \E t \in Threads : \E b \in CacheRequests : \E ub \in UBOutcomes :
           \E race \in RaceOutcomes : Begin(t, b, ub, race)
    \/ \E t \in Threads : \E race \in RaceOutcomes : Find(t, race)
    \/ \E t \in Threads : Invoke(t)
    \/ \E t \in Threads : \E race \in RaceOutcomes : Slot(t, race)
    \/ \E t \in Threads : Assign(t)

SpecThreads == Init /\ [][NextThreads]_vars

-----------------------------------------------------------------------------
(* Properties *)

\* the last operation was a dispatch, and it gave a reply
Dispatched == last.op = "dispatch"

Replied == Dispatched /\ last.st = "reply"

\* the serial object of the reply, and of the request when from_bytes takes it
ReplyObject == from_msgpack(last.bytes).val

RequestParsed == from_bytes(last.req)

RequestObject == RequestParsed.val

\* the error a reply decodes to: its kind is none when it carries no error
DecodedError(obj) ==
    IF contains(obj, "except_type") THEN extract_exception(obj)
    ELSE Ok(rpc_exception("", none))

ReplyIs(mesg, type) == Replied /\ DecodedError(ReplyObject) = Ok(rpc_exception(mesg, type))

ReplyKind == IF DecodedError(ReplyObject).st = "ok" THEN DecodedError(ReplyObject).val.type ELSE -1

ReplyMesg == IF DecodedError(ReplyObject).st = "ok" THEN DecodedError(ReplyObject).val.mesg ELSE ""

\* sub occurs in string str
Contains(str, sub) ==
    \E i \in 1..(Len(str) - Len(sub) + 1) : SubSeq(str, i, i + Len(sub) - 1) = sub

\* C1: for every buffer and every callback, dispatch returns a reply: it
\* never throws to its caller and never ends the process.
C1_DispatchNeverRaises == Dispatched => last.st = "reply"

\* the request of the last dispatch is the one a client encodes for the
\* handler that was called, with argument tuple a
ValidRequest(a) ==
    /\ Dispatched /\ last.found
    /\ last.req = serialize_call(last.h.func.R, last.fname, a)

\* the PackedCall the reply decodes to, for the signature of callback f
ReplyPack(f) == deserialize_pack(f.R, decay_str_t(f.Args), ReplyObject, "abort")

\* the reply pack p of callback f agrees with r, what f did on the arguments
Agrees(f, r, p) ==
    /\ p.st = "ok"
    /\ r.st = "ret" => /\ pack_ok(p.val)
                       /\ f.R.k # "void" => p.val.m_result = Present(r.result)
    /\ (p.val.m_except_type = remote_exec) <=> (r.st = "throw")

RoundTrip(f, a, r) ==
    /\ (r.st = "ret" \/ r.ex.cls = "std") => Replied
    /\ Replied => Agrees(f, r, ReplyPack(f))

ArityMismatch ==
    /\ Dispatched /\ last.found
    /\ contains(RequestObject, "args") /\ RequestObject.v["args"].t = "arr"
    /\ Len(RequestObject.v["args"].v) # Len(last.h.func.Args)

\* C3: a request with fewer or more arguments than the bound callback's
\* arity is answered with a signature_mismatch error and the callback is not
\* run.
C3_ArityMismatch ==
    ArityMismatch => (Replied /\ ReplyKind = signature_mismatch /\ ~last.inv)

\* the handler of the dispatches recorded under key
HandlerAt(key) == m_dispatch_table[key[1]][key[2]]

\* the dispatches recorded in past ran the callback at most once and all
\* but the first were served from the cache
AtMostOnce(past) == past.calls <= 1 /\ past.hits >= past.n - 1

C5_ByteEqualReplies ==
    \A key \in DOMAIN seen : Cardinality(seen[key].replies) <= 1

\* C6: the first dispatch on an instance after its clear_all_cache is not
\* served from an entry the instance stored before the call.
C6_ClearEmptiesCache ==
    (Dispatched /\ last.fresh) => ~(last.hit /\ last.from = last.s)

\* C7: a dispatch is only ever served from an entry that a dispatch on the
\* same server instance stored.
C7_CachePerInstance == (Dispatched /\ last.hit) => last.from = last.s

\* the request of the last dispatch names a function that is not bound
Unbound ==
    /\ Dispatched /\ RequestParsed.has
    /\ contains(RequestObject, "func_name") /\ RequestObject.v["func_name"].t = "str"
    /\ RequestObject.v["func_name"].v \notin DOMAIN m_dispatch_table[last.s]

NotFoundReply ==
    /\ Replied /\ ReplyKind = func_not_found
    /\ Contains(ReplyMesg, "\"" \o RequestObject.v["func_name"].v \o "\"")
    /\ ~last.found /\ ~last.inv

\* C8: a request for a name that is not bound is answered with a
\* func_not_found error whose message holds the name in double quotes; no
\* callback runs, and the dispatch table and the cache stay as they were.
C8_FunctionNotFound ==
    Unbound => (NotFoundReply /\ last.kept /\ m_dispatch_table[last.s] = last.table)

C8_Witness ==
    /\ Unbound /\ NotFoundReply
    /\ RequestObject.v["func_name"].v = "DoesNotExist"
    /\ m_dispatch_table[last.s] # <<>>

\* C9: a buffer that from_bytes rejects is answered with a server_receive
\* error with the message "Invalid RPC object received"; the table is not
\* searched and no handler runs.
C9_InvalidObject ==
    (Dispatched /\ ~RequestParsed.has) =>
        /\ ReplyIs("Invalid RPC object received", server_receive)
        /\ ~last.looked /\ ~last.found /\ ~last.inv

C9_Witness ==
    /\ Dispatched /\ ~RequestParsed.has /\ last.req # <<>>
    /\ ReplyIs("Invalid RPC object received", server_receive)

\* the client of the last call was handed the dispatcher's server_receive
\* error object
HandedServerReceive ==
    /\ Dispatched /\ last.client.st # "none"
    /\ Replied /\ ReplyObject = set_exception(empty_object,
                     rpc_exception("Invalid RPC object received", server_receive))

\* C10: a client handed the dispatcher's server_receive error object throws
\* a server_receive error with the message "Invalid RPC object received",
\* for every return type and argument list.
C10_ClientRaisesServerReceive ==
    HandedServerReceive =>
        /\ last.client.st = "throw" /\ last.client.ex.cls = "rpc"
        /\ last.client.ex.type = server_receive
        /\ last.client.ex.mesg = "Invalid RPC object received"

\* what from_msgpack makes of the buffer of the last dispatch
Decoded == from_msgpack(last.req)

\* The structural rule for a decoded object: with a non-zero except_type
\* there is an err_mesg; otherwise func_name is a non-empty string and args
\* is an array.
Validates(obj) ==
    IF contains(obj, "except_type") /\ ~json_is_zero(obj.v["except_type"])
    THEN contains(obj, "err_mesg")
    ELSE /\ contains(obj, "func_name")
         /\ obj.v["func_name"].t = "str" /\ obj.v["func_name"].v # ""
         /\ contains(obj, "args") /\ obj.v["args"].t = "arr"

\* C17: from_bytes gives nothing for every decoded object that does not
\* meet the structural rule, among them the objects whose except_type is 0
\* and the objects whose func_name is the empty string.
C17_RejectsInvalid ==
    (Dispatched /\ Decoded.ok /\ Decoded.val.t = "obj" /\ ~Validates(Decoded.val))
        => ~RequestParsed.has

\* the json kind that a parameter of kind k is written as
ScalarKind(k) ==
    CASE k = "int" -> "int"
      [] k = "bool" -> "bool"
      [] k = "string" -> "str"

\* The last dispatch called the handler of a function with as many
\* parameters as the request has arguments, and one argument is a scalar
\* of another kind than its parameter.
ScalarMismatch ==
    /\ Dispatched /\ last.found /\ RequestParsed.has
    /\ contains(RequestObject, "args") /\ RequestObject.v["args"].t = "arr"
    /\ Len(RequestObject.v["args"].v) = Len(last.h.func.Args)
    /\ \E i \in 1..Len(last.h.func.Args) :
           /\ RequestObject.v["args"].v[i].t \in {"int", "float", "bool", "str"}
           /\ RequestObject.v["args"].v[i].t # ScalarKind(last.h.func.Args[i].k)

\* C18: an argument that is a scalar of another kind than its parameter,
\* declared by value or by reference, makes dispatch reply with
\* signature_mismatch, and the callback is not called.
C18_ScalarMismatch ==
    ScalarMismatch => (Replied /\ ReplyKind = signature_mismatch /\ ~last.inv)

\* the reply of the last dispatch carries no non-zero except_type
ReplySucceeded ==
    ~(contains(ReplyObject, "except_type") /\ ~json_is_zero(ReplyObject.v["except_type"]))

\* C20: in the reply to a request that from_bytes accepts, the result
\* member is there exactly if the reply carries no non-zero except_type and
\* the function called does not return void.
C20_ResultIffSucceeded ==
    (Replied /\ RequestParsed.has) =>
        (contains(ReplyObject, "result") <=>
            (ReplySucceeded /\ last.found /\ last.h.func.R.k # "void"))

-----------------------------------------------------------------------------
(* Properties of a client's call *)

\* the last operation was a call_func
Called == last.op \in {"call", "dispatch"} /\ last.client.st # "none"

\* ... over a transport that carried the request and the reply as they were
Carried == Called /\ Replied /\ last.call.t = "ok"

Returns == Called /\ last.client.st = "ok"

\* call_func threw an rpc_exception of kind type with message mesg
Raises(mesg, type) ==
    /\ Called /\ last.client.st = "throw" /\ last.client.ex.cls = "rpc"
    /\ last.client.ex.mesg = mesg /\ last.client.ex.type = type

HandlerKinds ==
    {func_not_found, signature_mismatch, deserialization, remote_exec, serialization}

\* the server's handler path failed: its reply carries one of HandlerKinds
ServerFailed == Carried /\ ReplyKind \in HandlerKinds

\* C11: end to end, when the server's handler path fails with a kind of
\* HandlerKinds and a message, call_func throws an rpc_exception of that
\* kind with that message; and call_func returns a value only when the
\* server's reply carries no error.
C11_ErrorKindPreserved ==
    /\ ServerFailed => Raises(ReplyMesg, ReplyKind)
    /\ (Carried /\ Returns) => ReplyKind = none

\* a call whose callback threw, and one that found no function
C11_Witness ==
    /\ ServerFailed /\ ReplyKind = remote_exec /\ last.inv
    /\ Raises("zero", remote_exec)

\* the argument tuple the callback of the last dispatch was applied to, and
\* the tuple it left
ServerArgs ==
    deserialize_pack(last.h.func.R, last.h.func.Args, RequestObject, "null").val.m_args

LeftByCallback == apply(last.h.func, ServerArgs).args

\* the caller's arguments after call_func has returned
ArgsAfter == last.client.val.args

\* C12: after call_func has returned from a call whose callback ran, every
\* argument passed as a non-const lvalue holds the value the callback left
\* in that slot of its argument tuple, and every argument passed as a
\* const lvalue or as a string literal holds the value it had.
C12_ReferenceWriteBack ==
    (Carried /\ Returns /\ last.inv) =>
        \A i \in 1..Len(last.call.args) :
            /\ last.call.Args[i].q = "ref" => ArgsAfter[i] = LeftByCallback[i]
            /\ last.call.Args[i].q \in {"cref", "lit"} => ArgsAfter[i] = last.call.args[i]

\* an lvalue that the callback has changed
C12_Witness ==
    /\ Carried /\ Returns /\ last.inv
    /\ Len(last.call.args) = 1 /\ last.call.Args[1].q = "ref"
    /\ LeftByCallback[1] # last.call.args[1]
    /\ ArgsAfter[1] = LeftByCallback[1]

\* the Trace of the last call_func
SendThrew == Called /\ send(last.call.t).st = "throw"

Received == receive(last, last.call.t)

ReceiveThrew == Called /\ Dispatched /\ Received.st = "throw"

\* receive returned the reply without its last byte, which from_bytes rejects
ReceivedInvalid ==
    /\ Called /\ last.parsed /\ Replied /\ last.call.t = "garbled"
    /\ ~from_bytes(Received.val).has

-----------------------------------------------------------------------------
(* Properties of a pack *)

IsPack == last.op = "pack"

\* Two packs are equal: same name, arguments, result and error kind, and
\* the same message when they carry an error.
SamePack(p, q) ==
    /\ p.m_func_name = q.m_func_name /\ p.m_args = q.m_args /\ p.m_result = q.m_result
    /\ p.m_except_type = q.m_except_type
    /\ p.m_except_type # none => p.m_err_mesg = q.m_err_mesg

\* C15: for a successful pack of any of the argument-type lists,
\* deserialize_pack of its serialize_pack gives a pack equal to it.
C15_PackRoundTrip ==
    (IsPack /\ pack_ok(last.pack)) => (last.trip.st = "ok" /\ SamePack(last.trip.val, last.pack))

\* an argument type that is a container of containers or of tuples
NestedInContainer(T) == T.k = "vec" /\ T.of.k \in {"vec", "tuple"}

PlainArgs(Args) == \A i \in 1..Len(Args) : ~NestedInContainer(Args[i])

CarriesError == IsPack /\ last.pack.m_except_type # none

C19_SuccessfulIff ==
    IsPack =>
        (pack_ok(last.pack) <=>
            /\ last.pack.m_except_type = none
            /\ (last.pack.R.k = "void" \/ last.pack.m_result.has))

\* a pack that is successful again after an error was set and taken back
\* and a result was set
C19_Witness ==
    /\ IsPack /\ nops = MaxOps /\ pack_ok(last.pack)
    /\ last.pack.R.k # "void" /\ last.pack.m_err_mesg = "boom"


-----------------------------------------------------------------------------
(* Properties of registration *)

\* C21: when a name is bound again, the new callback replaces the old one:
\* a dispatch of the name goes through the handler of the latest bind or
\* bind_cached of that name, never through an earlier one.
C21_RebindReplaces ==
    (Dispatched /\ last.found) => last.h = last.bound[last.fname]


-----------------------------------------------------------------------------
(* Properties of dispatches that run at the same time *)

\* thread t has done the cache lookup of a cached binding
Looked(t) ==
    /\ thread[t].bucket # <<>> /\ thread[t].h.func.R.k # "void"
    /\ thread[t].pc \in {"call", "slot", "assign"}
          \/ (thread[t].pc = "done" /\ (thread[t].hit \/ thread[t].inv))

\* C22: under interleaved dispatches every cache entry belongs to a
\* request for which the callback of some dispatch has returned; a dispatch
\* whose lookup finds no entry does not answer from the cache and goes on
\* to invoke the callback itself; and a dispatch answers from the cache
\* only when the callback of some dispatch had returned for that request
\* before the lookup.
C22_VisibleAfterReturn ==
    /\ \A b \in DOMAIN cache : \A k \in DOMAIN cache[b] :
           \E u \in Threads : thread[u].ret /\ thread[u].bucket = b /\ thread[u].key = k
    /\ \A t \in Threads :
           (Looked(t) /\ ~thread[t].present) =>
               (~thread[t].hit /\ (thread[t].pc = "call" \/ thread[t].inv))
    /\ \A t \in Threads : thread[t].hit => (thread[t].present /\ thread[t].ready)

\* Two dispatches of the same request ran at the same time, both found no
\* entry and both invoked the callback.
C22_Witness ==
    /\ thread["T1"].key = thread["T2"].key /\ thread["T1"].bucket = thread["T2"].bucket
    /\ \A t \in Threads :
           /\ Looked(t) /\ ~thread[t].present /\ thread[t].inv
           /\ thread[t].pc = "done" /\ thread[t].out.st = "reply"

\* One dispatch answered from the entry that another one, which ran at the
\* same time, had stored.
C22_WitnessHit ==
    /\ thread["T2"].hit /\ thread["T1"].ret /\ thread["T1"].pc = "done"
    /\ thread["T1"].key = thread["T2"].key


\* what dispatch replies to the request of thread t when it runs alone
Alone(t) ==
    dispatch(thread[t].table, thread[t].req, thread[t].ub, <<>>, <<>>)

\* threads t and u are in dispatches of different bound functions
DifferentFunctions(t, u) ==
    /\ thread[t].h.func.id # "" /\ thread[u].h.func.id # ""
    /\ thread[t].h.func.id # thread[u].h.func.id

\* C23: with the dispatch table frozen, a dispatch leaves the table as it
\* was and writes no shared map but the cache bucket of its function; two
\* dispatches of different functions that run at the same time write no
\* common map and each gives the reply it gives when it runs alone.
C23_DisjointWrites ==
    /\ \A t \in Threads :
           thread[t].pc # "idle" =>
               /\ m_dispatch_table["S1"] = thread[t].table
               /\ thread[t].wrote \subseteq {thread[t].bucket}
    /\ \A t \in Threads : \A u \in Threads \ {t} :
           DifferentFunctions(t, u) =>
               /\ thread[t].wrote \cap thread[u].wrote = {}
               /\ thread[t].pc = "done" =>
                      /\ thread[t].out.st = Alone(t).st
                      /\ thread[t].out.bytes = Alone(t).bytes


-----------------------------------------------------------------------------
(* Properties of failed dispatches *)

\* what deserialize_pack<R, Args...> of the bound callback makes of the
\* request of the last dispatch
Decoding(ub) ==
    deserialize_pack(last.h.func.R, last.h.func.Args, RequestObject, ub)

\* the handler of the last dispatch could not decode the request: for
\* every outcome of undefined behaviour deserialize_pack throws
DecodeFailed ==
    /\ Dispatched /\ last.found
    /\ \A ub \in UBOutcomes : Decoding(ub).st = "throw"

\* the kind the reply must carry for the exception ex of the decoding
DecodeKind(ex) == IF ex.cls = "rpc" THEN ex.type ELSE deserialization

\* the reply has the func_name and args members of the request
KeepsRequest ==
    /\ contains(ReplyObject, "func_name") /\ contains(ReplyObject, "args")
    /\ ReplyObject.v["func_name"] = RequestObject.v["func_name"]
    /\ ReplyObject.v["args"] = RequestObject.v["args"]

\* C24: when the handler cannot decode the request into the callback's
\* argument tuple, the callback is not invoked, the reply carries the kind
\* of the decoding's exception (signature_mismatch, or deserialization for
\* any other exception) and its message, the reply keeps the request's
\* func_name and args, and the cache is as it was.
C24_DecodeFailure ==
    DecodeFailed =>
        /\ ~last.inv /\ ~last.hit
        /\ ReplyIs(Decoding("null").ex.mesg, DecodeKind(Decoding("null").ex))
        /\ ReplyKind \in {signature_mismatch, deserialization}
        /\ KeepsRequest
        /\ last.kept

\* A cached binding was handed an argument that nlohmann's get<int>()
\* rejects: the reply carries deserialization.
C24_Witness ==
    /\ DecodeFailed /\ last.h.cached
    /\ Decoding("null").ex.cls = "std"
    /\ ReplyKind = deserialization


\* the static caches c and d hold the same entries with the same values
SameEntries(c, d) ==
    /\ Entries(c) = Entries(d)
    /\ \A e \in Entries(c) : c[e[1]][e[2]] = d[e[1]][e[2]]

\* what the callback of the last dispatch did with the decoded arguments
Applied == apply(last.h.func, Decoding("null").val.m_args)

\* the callback of the last dispatch was invoked and raised
CallbackRaised ==
    /\ Dispatched /\ last.found /\ last.inv
    /\ Decoding("null").st = "ok"
    /\ Applied.st = "throw"

\* C25: when the callback raises, no cache entry is inserted or changed,
\* an exception derived from std::exception is answered with a remote_exec
\* reply, and the reply has the func_name and args of the request, not the
\* arguments as the callback left them.
C25_RaiseLeavesNoTrace ==
    CallbackRaised =>
        /\ SameEntries(cache, last.was)
        /\ Applied.ex.cls = "std" => ReplyIs(Applied.ex.mesg, remote_exec)
        /\ Replied => KeepsRequest

\* Under a cached binding the callback changed its reference argument and
\* then raised.
C25_Witness ==
    /\ CallbackRaised /\ last.h.cached /\ Replied
    /\ Applied.args # Decoding("null").val.m_args


-----------------------------------------------------------------------------
(* Properties of deserialize_pack and get_result *)

\* serial object obj carries an error: a non-zero except_type and an
\* err_mesg
CarriesErrorFields(obj) ==
    /\ contains(obj, "except_type") /\ ~json_is_zero(obj.v["except_type"])
    /\ contains(obj, "err_mesg")

\* the handler of the last dispatch has decoded a request that carries an
\* error
DecodedErrorObject ==
    /\ Dispatched /\ last.found
    /\ CarriesErrorFields(RequestObject)
    /\ \A ub \in UBOutcomes : Decoding(ub).st = "ok"

\* C26: deserialize_pack of an object that carries a non-zero except_type
\* and an err_mesg gives a pack that is not successful and has that kind
\* and message, with or without a non-null result member in the object,
\* and get_result on the pack throws the exception of that kind and
\* message.
C26_ErrorWins ==
    DecodedErrorObject =>
        /\ ~pack_ok(Decoding("null").val)
        /\ Ok(rpc_exception(Decoding("null").val.m_err_mesg,
                            Decoding("null").val.m_except_type))
               = extract_exception(RequestObject)
        /\ get_result(Decoding("null").val)
               = ThrowRpc(extract_exception(RequestObject).val.mesg,
                          extract_exception(RequestObject).val.type)


\* C27: every rpc_exception that call_func throws carries a kind other
\* than none, whatever reply the client received.
C27_KindNeverNone ==
    (Called /\ last.client.st = "throw" /\ last.client.ex.cls = "rpc") =>
        last.client.ex.type # none


-----------------------------------------------------------------------------
(* Properties of the cache *)

\* the last dispatch went to a callback bound with bind
UncachedDispatch == Dispatched /\ last.found /\ ~last.h.cached

\* the bucket and key a cached binding would use for the last dispatch
BucketOf == <<last.h.func.R.k, last.fname>>

KeyOf == to_bytes(RequestObject)

\* C28: a dispatch to a name bound with bind never answers from a cache
\* entry, leaves the static cache and the instance's m_cache_map as they
\* were, and invokes the callback whenever the request decodes, whatever
\* the caches hold.
C28_UncachedIgnoresCache ==
    UncachedDispatch =>
        /\ ~last.hit
        /\ last.kept
        /\ (\A ub \in UBOutcomes : Decoding(ub).st = "ok") => last.inv

\* An uncached binding was dispatched while the static cache held an entry
\* for the same function name and the same request bytes.
C28_Witness ==
    /\ UncachedDispatch /\ last.inv
    /\ BucketOf \in DOMAIN last.was
    /\ KeyOf \in DOMAIN last.was[BucketOf]


\* the entries that the last dispatch added to the static cache
Inserted == Entries(cache) \ Entries(last.was)

\* C29: a dispatch leaves every entry that the cache held with its value;
\* an entry it adds is the one of its own bucket and request bytes, under a
\* cached binding, with the value the callback returned in this dispatch,
\* and the reply carries no error; a dispatch that fails, that is served
\* from the cache or whose callback returns void adds nothing.
C29_EntriesAreResults ==
    Dispatched =>
        /\ \A e \in Entries(last.was) :
               e \in Entries(cache) /\ cache[e[1]][e[2]] = last.was[e[1]][e[2]]
        /\ \A e \in Inserted :
               /\ last.found /\ last.h.cached /\ last.inv
               /\ e = <<BucketOf, KeyOf>>
               /\ Applied.st = "ret" /\ cache[e[1]][e[2]] = Applied.result
               /\ Replied /\ ReplySucceeded
        /\ (~Replied \/ ~ReplySucceeded \/ ~last.inv \/ last.h.func.R.k = "void") =>
               Inserted = {}

\* A dispatch added an entry to a bucket that held another entry.
C29_Witness ==
    /\ Dispatched /\ Inserted # {}
    /\ \E e \in Entries(last.was) : \E i \in Inserted : e[1] = i[1]


-----------------------------------------------------------------------------
(* Properties of the caller's arguments *)

\* C30: when call_func throws, for whatever reason, every argument of the
\* caller holds the value it had before the call.
C30_RaiseKeepsArguments ==
    (Called /\ last.client.st = "throw") => last.left = last.call.args

=============================================================================
